---- MODULE Spec2Model ----
(***************************************************************************)
(* Model of src/compiler/builder.ts: the builder program state, the state  *)
(* constructor (diff engine), the affected-file iterator and the facade    *)
(* operations of the two builder variants.                                 *)
(*                                                                         *)
(* The BuilderState layer (builderState.ts) and the compiler program are   *)
(* collaborators of builder.ts; they are modelled from their contracts.    *)
(***************************************************************************)
EXTENDS Integers, Sequences, FiniteSets, TLC

(* ---------------------------------------------------------------------- *)
(* Universe                                                                *)
(* ---------------------------------------------------------------------- *)

\* Canonical paths of the source files a program may contain.
Paths == {"a", "b", "c"}

\* Order in which a program lists its source files (getSourceFiles()).
PathOrder == <<"a", "b", "c">>

\* Content versions of a file are 1..MaxVersion; 0 stands for "no such file".
MaxVersion == 2

\* Number of builders created from an old builder's state in one behaviour.
MaxBuilds == 1

\* Reference edges a program may contain (source, target); a<->b is a cycle.
RefEdges == {<<"b", "a">>, <<"a", "b">>, <<"c", "b">>, <<"c", "a">>}

\* undefined for a Path-valued or affected-valued slot.
Undefined == "undefined"

\* The whole-program yield (affected === state.program).
WholeProgram == "program"

\* undefined for affectedFilesIndex.
NoIndex == -1

\* Absent signature / absent cache entry / absent file.
NoSignature == 0
NoDiagnostics == 0

\* Optional values: None is undefined, Some(x) a defined value.
None == <<>>
Some(x) == <<x>>
Get(o) == o[1]

SemanticDiagnosticsBuilderProgram == "SemanticDiagnosticsBuilderProgram"
EmitAndSemanticDiagnosticsBuilderProgram == "EmitAndSemanticDiagnosticsBuilderProgram"
BuilderProgramKind == {SemanticDiagnosticsBuilderProgram, EmitAndSemanticDiagnosticsBuilderProgram}

(* ---------------------------------------------------------------------- *)
(* Ordered maps (ES Map keeps insertion order)                             *)
(* ---------------------------------------------------------------------- *)

Range(seq) == {seq[i] : i \in 1..Len(seq)}

\* Map<true>.set(key, true): a new key goes last, an old key keeps its place.
MapSet(seq, key) == IF key \in Range(seq) THEN seq ELSE Append(seq, key)

\* Map.delete(key)
MapDelete(seq, key) == SelectSeq(seq, LAMBDA k : k # key)

\* The paths of set S in program order.
InOrder(S) == SelectSeq(PathOrder, LAMBDA p : p \in S)

(* ---------------------------------------------------------------------- *)
(* The compiler program (external collaborator)                            *)
(* ---------------------------------------------------------------------- *)

\* A program: version[p] = 0 iff p is not a source file of the program;
\* refs[p] is the set of paths p references and depends on (possibly paths
\* that are not files of the program); outFile is the bundled-output option;
\* module tells whether the builder state tracks the references
\* (referencedMap present).
ProgramFiles(prog) == {p \in Paths : prog.version[p] # 0}

\* The shape signature the program computes for content version v
\* (computeHash of the declaration output): version 1 has shape 1, versions
\* 2 and 3 share shape 2 (version 3 needs MaxVersion of 3 or more), so an edit
\* may or may not change the shape.
ShapeOf(v) == (v \div 2) + 1

\* Digit of path q in the diagnostics of a file referencing refs.
RefDigit(prog, refs, q) == IF q \in refs /\ prog.version[q] # 0 THEN ShapeOf(prog.version[q]) ELSE 0

\* program.getSemanticDiagnostics(sourceFile): the diagnostics of a file are
\* determined by its own content and by the shapes of the files it
\* references; encoded as a positive number.
ProgramDiagnostics(prog, p) ==
    LET B == MaxVersion + 2
    IN  prog.version[p]
        + B * (RefDigit(prog, prog.refs[p], "a")
        + B * (RefDigit(prog, prog.refs[p], "b")
        + B * RefDigit(prog, prog.refs[p], "c")))

(* ---------------------------------------------------------------------- *)
(* BuilderState layer                                                      *)
(* ---------------------------------------------------------------------- *)

\* BuilderState.canReuseOldState(newReferencedMap, oldState)
canReuseOldState(newReferencedMap, old) ==
    /\ old # None
    /\ (Get(old).referencedMap = None) = (newReferencedMap = None)

\* BuilderState.create(newProgram, getCanonicalFileName, oldState)
BuilderStateCreate(newProgram, old) ==
    LET referencedMap == IF newProgram.module THEN Some(newProgram.refs) ELSE None
        useOldState == canReuseOldState(referencedMap, old)
        oldSignature(p) == IF useOldState /\ Get(old).fileInfos[p].version # 0
                           THEN Get(old).fileInfos[p].signature ELSE NoSignature
    IN  [ fileInfos |-> [p \in Paths |->
                            IF newProgram.version[p] # 0
                            THEN [version |-> newProgram.version[p], signature |-> oldSignature(p)]
                            ELSE [version |-> 0, signature |-> NoSignature]],
          referencedMap |-> referencedMap,
          hasCalledUpdateShapeSignature |-> {} ]

\* referencedMap.get(path): undefined when the file references nothing.
ReferencesOf(referencedMap, p) ==
    IF referencedMap = None THEN None
    ELSE IF Get(referencedMap)[p] = {} THEN None ELSE Some(Get(referencedMap)[p])

(* ---------------------------------------------------------------------- *)
(* builder.ts: state constructor                                           *)
(* ---------------------------------------------------------------------- *)

\* hasSameKeys(map1, map2) on optional key sets
\* A variant comparing the two maps by identity: a map of the new state is
\* never the object held by the old state.
hasSameKeysByIdentity(map1, map2) == map1 = None /\ map2 = None

\* A variant comparing the sizes only.
hasSameKeysBySize(map1, map2) ==
    IF map1 = None THEN map2 = None
    ELSE IF map2 = None THEN map1 = None
    ELSE Cardinality(Get(map1)) = Cardinality(Get(map2))

hasSameKeys(map1, map2) ==
    IF map1 = None THEN map2 = None
    ELSE IF map2 = None THEN map1 = None
    ELSE /\ Cardinality(Get(map1)) = Cardinality(Get(map2))
         /\ ~ \E key \in Get(map1) : key \notin Get(map2)

\* The first assertion of createBuilderProgramState (line 70-72).
OldStateIterationSane(oldState) ==
    oldState.currentChangedFilePath = Undefined =>
        /\ oldState.affectedFiles = None
        /\ \A p \in Paths : oldState.currentAffectedFilesSignatures[p] = NoSignature

\* The second assertion of createBuilderProgramState (line 73-75).
OldStateCachePure(oldState) ==
    ~ \E i \in 1..Len(oldState.changedFilesSet) :
          Get(oldState.semanticDiagnosticsPerFile)[oldState.changedFilesSet[i]] # NoDiagnostics

\* The condition of line 89-97 under which a file of the new program is
\* registered as changed.
\* A variant without the clause for the version.
IsChangedFileIgnoringVersion(useOldState, old, fileInfos, referencedMap, sourceFilePath) ==
    \/ ~ useOldState
    \/ Get(old).fileInfos[sourceFilePath].version = 0
    \/ ~ hasSameKeys(ReferencesOf(referencedMap, sourceFilePath),
                     ReferencesOf(Get(old).referencedMap, sourceFilePath))
    \/ LET newReferences == ReferencesOf(referencedMap, sourceFilePath)
       IN  /\ newReferences # None
           /\ \E path \in Get(newReferences) :
                  fileInfos[path].version = 0 /\ Get(old).fileInfos[path].version # 0

\* A variant without the clause for a deleted reference target.
IsChangedFileIgnoringDeletedReferences(useOldState, old, fileInfos, referencedMap, sourceFilePath) ==
    \/ ~ useOldState
    \/ Get(old).fileInfos[sourceFilePath].version = 0
    \/ Get(old).fileInfos[sourceFilePath].version # fileInfos[sourceFilePath].version
    \/ ~ hasSameKeys(ReferencesOf(referencedMap, sourceFilePath),
                     ReferencesOf(Get(old).referencedMap, sourceFilePath))

IsChangedFile(useOldState, old, fileInfos, referencedMap, sourceFilePath) ==
    \/ ~ useOldState
    \/ Get(old).fileInfos[sourceFilePath].version = 0
    \/ Get(old).fileInfos[sourceFilePath].version # fileInfos[sourceFilePath].version
    \/ ~ hasSameKeys(ReferencesOf(referencedMap, sourceFilePath),
                     ReferencesOf(Get(old).referencedMap, sourceFilePath))
    \/ LET newReferences == ReferencesOf(referencedMap, sourceFilePath)
       IN  /\ newReferences # None
           /\ \E path \in Get(newReferences) :
                  fileInfos[path].version = 0 /\ Get(old).fileInfos[path].version # 0

\* changedFilesSet after the forEach of line 84-108, folding over the files
\* of the new program in their order.
\* A variant that drops the entries copied from the old state.
RECURSIVE RegisterChangedDroppingCopied(_, _, _, _, _, _)
RegisterChangedDroppingCopied(changed, i, useOldState, old, fileInfos, referencedMap) ==
    IF i > Len(PathOrder) THEN changed
    ELSE LET p == PathOrder[i]
             kept == IF i = 1 THEN <<>> ELSE changed
             next == IF fileInfos[p].version # 0
                        /\ IsChangedFile(useOldState, old, fileInfos, referencedMap, p)
                     THEN MapSet(kept, p) ELSE kept
         IN  RegisterChangedDroppingCopied(next, i + 1, useOldState, old, fileInfos, referencedMap)

RECURSIVE RegisterChanged(_, _, _, _, _, _)
RegisterChanged(changed, i, useOldState, old, fileInfos, referencedMap) ==
    IF i > Len(PathOrder) THEN changed
    ELSE LET p == PathOrder[i]
             next == IF fileInfos[p].version # 0
                        /\ IsChangedFile(useOldState, old, fileInfos, referencedMap, p)
                     THEN MapSet(changed, p) ELSE changed
         IN  RegisterChanged(next, i + 1, useOldState, old, fileInfos, referencedMap)

\* createBuilderProgramState(newProgram, getCanonicalFileName, oldState):
\* [failed |-> an assertion fired, state |-> the new state].
createBuilderProgramState(newProgram, old) ==
    LET base == BuilderStateCreate(newProgram, old)
        perFile == ~ newProgram.outFile
        useOldState == canReuseOldState(base.referencedMap, old)
        canCopySemanticDiagnostics ==
            useOldState /\ Get(old).semanticDiagnosticsPerFile # None /\ perFile
        failed == /\ useOldState
                  /\ \/ ~ OldStateIterationSane(Get(old))
                     \/ canCopySemanticDiagnostics /\ ~ OldStateCachePure(Get(old))
        copied == IF useOldState THEN Get(old).changedFilesSet ELSE <<>>
        changedFilesSet == RegisterChanged(copied, 1, useOldState, old,
                                           base.fileInfos, base.referencedMap)
        diagnostics(p) ==
            IF /\ base.fileInfos[p].version # 0
               /\ ~ IsChangedFile(useOldState, old, base.fileInfos, base.referencedMap, p)
               /\ canCopySemanticDiagnostics
            THEN Get(Get(old).semanticDiagnosticsPerFile)[p] ELSE NoDiagnostics
    IN  [ failed |-> failed,
          state |->
            [ program |-> newProgram,
              fileInfos |-> base.fileInfos,
              referencedMap |-> base.referencedMap,
              hasCalledUpdateShapeSignature |-> base.hasCalledUpdateShapeSignature,
              semanticDiagnosticsPerFile |->
                  IF perFile THEN Some([p \in Paths |-> diagnostics(p)]) ELSE None,
              changedFilesSet |-> changedFilesSet,
              affectedFiles |-> None,
              affectedFilesIndex |-> NoIndex,
              currentChangedFilePath |-> Undefined,
              currentAffectedFilesSignatures |-> [p \in Paths |-> NoSignature],
              seenAffectedFiles |-> {} ] ]

(* ---------------------------------------------------------------------- *)
(* BuilderState layer: affected files of a changed root                    *)
(* ---------------------------------------------------------------------- *)

\* updateShapeSignature(state, program, sourceFile, cacheToUpdateSignature):
\* [changed |-> the shape differs from the committed signature,
\*  cache |-> the pending signatures afterwards].
updateShapeSignature(s, p, cache) ==
    IF p \in s.hasCalledUpdateShapeSignature \/ cache[p] # NoSignature
    THEN [changed |-> FALSE, cache |-> cache]
    ELSE LET prevSignature == s.fileInfos[p].signature
             latestSignature == ShapeOf(s.program.version[p])
         IN  [changed |-> prevSignature = NoSignature \/ latestSignature # prevSignature,
              cache |-> [cache EXCEPT ![p] = latestSignature]]

\* getReferencedByPaths(state, path): the files referencing path, in the
\* order of the reference map.
getReferencedByPaths(s, path) ==
    InOrder({p \in ProgramFiles(s.program) : path \in Get(s.referencedMap)[p]})

\* The work-list loop of getFilesAffectedByUpdatedShapeWhenModuleEmit:
\* queue.pop() takes the last element; seen keeps insertion order.
RECURSIVE AffectedClosure(_, _, _, _)
AffectedClosure(s, queue, seen, cache) ==
    IF queue = <<>> THEN [files |-> seen, cache |-> cache]
    ELSE LET currentPath == queue[Len(queue)]
             rest == SubSeq(queue, 1, Len(queue) - 1)
         IN  IF currentPath \in Range(seen) THEN AffectedClosure(s, rest, seen, cache)
             ELSE LET u == updateShapeSignature(s, currentPath, cache)
                  IN  AffectedClosure(s,
                          IF u.changed THEN rest \o getReferencedByPaths(s, currentPath) ELSE rest,
                          Append(seen, currentPath), u.cache)

\* getAllFilesExcludingDefaultLibraryFile(state, program, firstSourceFile)
AllFilesStartingWith(s, path) ==
    <<path>> \o InOrder(ProgramFiles(s.program) \ {path})

\* BuilderState.getFilesAffectedBy(state, program, path, ..., cacheToUpdateSignature):
\* [files |-> the ordered affected files, cache |-> the pending signatures].
getFilesAffectedBy(s, path, cache) ==
    IF s.program.version[path] = 0 THEN [files |-> <<>>, cache |-> cache]
    ELSE LET u == updateShapeSignature(s, path, cache)
         IN  IF ~ u.changed THEN [files |-> <<path>>, cache |-> u.cache]
             ELSE IF s.referencedMap = None
                  THEN [files |-> AllFilesStartingWith(s, path), cache |-> u.cache]
                  ELSE AffectedClosure(s, getReferencedByPaths(s, path), <<path>>, u.cache)

\* BuilderState.updateSignaturesFromCache(state, signatureCache)
updateSignaturesFromCache(s, signatureCache) ==
    [s EXCEPT
       !.fileInfos = [p \in Paths |->
           IF signatureCache[p] # NoSignature
           THEN [version |-> s.fileInfos[p].version, signature |-> signatureCache[p]]
           ELSE s.fileInfos[p]],
       !.hasCalledUpdateShapeSignature =
           s.hasCalledUpdateShapeSignature \cup {p \in Paths : signatureCache[p] # NoSignature}]

(* ---------------------------------------------------------------------- *)
(* builder.ts: affected-file iterator                                      *)
(* ---------------------------------------------------------------------- *)

\* semanticDiagnosticsPerFile.delete(path)
CacheDelete(cache, path) == Some([Get(cache) EXCEPT ![path] = NoDiagnostics])

\* The inner loop of line 132-142: the first index at or after i whose file
\* is not in seenAffectedFiles, or Len + 1 when there is none.
\* A variant that starts looking after the file at the cursor.
RECURSIVE FirstUnseenAfterCursor(_, _, _)
FirstUnseenAfterCursor(affectedFiles, seenAffectedFiles, i) ==
    IF i + 1 > Len(affectedFiles) THEN i + 1
    ELSE IF affectedFiles[i + 1] \notin seenAffectedFiles THEN i + 1
    ELSE FirstUnseenAfterCursor(affectedFiles, seenAffectedFiles, i + 1)

RECURSIVE FirstUnseen(_, _, _)
FirstUnseen(affectedFiles, seenAffectedFiles, i) ==
    IF i > Len(affectedFiles) THEN i
    ELSE IF affectedFiles[i] \notin seenAffectedFiles THEN i
    ELSE FirstUnseen(affectedFiles, seenAffectedFiles, i + 1)

\* Line 135-138: the unseen file at (1-based) position i is yielded: the
\* cursor is recorded and the file's cached diagnostics are removed.
\* A variant that also marks the file seen at yield time.
YieldAffectedMarkingSeen(s, i) ==
    [s EXCEPT
       !.affectedFilesIndex = i - 1,
       !.seenAffectedFiles = s.seenAffectedFiles \cup {Get(s.affectedFiles)[i]},
       !.semanticDiagnosticsPerFile =
           CacheDelete(s.semanticDiagnosticsPerFile, Get(s.affectedFiles)[i])]

YieldAffected(s, i) ==
    [s EXCEPT
       !.affectedFilesIndex = i - 1,
       !.semanticDiagnosticsPerFile =
           CacheDelete(s.semanticDiagnosticsPerFile, Get(s.affectedFiles)[i])]

\* Line 144-150: the current batch is exhausted.
\* A variant that forgets the seen files when the batch ends.
FinishBatchForgettingSeen(s) ==
    LET committed == updateSignaturesFromCache(s, s.currentAffectedFilesSignatures)
    IN  [committed EXCEPT
           !.changedFilesSet = MapDelete(s.changedFilesSet, s.currentChangedFilePath),
           !.currentChangedFilePath = Undefined,
           !.currentAffectedFilesSignatures = [p \in Paths |-> NoSignature],
           !.seenAffectedFiles = {},
           !.affectedFiles = None]

\* A variant that keeps currentChangedFilePath.
FinishBatchKeepingRoot(s) ==
    LET committed == updateSignaturesFromCache(s, s.currentAffectedFilesSignatures)
    IN  [committed EXCEPT
           !.changedFilesSet = MapDelete(s.changedFilesSet, s.currentChangedFilePath),
           !.currentAffectedFilesSignatures = [p \in Paths |-> NoSignature],
           !.affectedFiles = None]

\* A variant that keeps the pending signatures after committing them.
FinishBatchKeepingSignatures(s) ==
    LET committed == updateSignaturesFromCache(s, s.currentAffectedFilesSignatures)
    IN  [committed EXCEPT
           !.changedFilesSet = MapDelete(s.changedFilesSet, s.currentChangedFilePath),
           !.currentChangedFilePath = Undefined,
           !.affectedFiles = None]

FinishBatch(s) ==
    LET committed == updateSignaturesFromCache(s, s.currentAffectedFilesSignatures)
    IN  [committed EXCEPT
           !.changedFilesSet = MapDelete(s.changedFilesSet, s.currentChangedFilePath),
           !.currentChangedFilePath = Undefined,
           !.currentAffectedFilesSignatures = [p \in Paths |-> NoSignature],
           !.affectedFiles = None]

\* Line 168-174: start the batch of the changed file nextKey.
\* A variant that commits the recomputed signatures as soon as they are known.
StartBatchCommittingSignatures(s, nextKey) ==
    LET r == getFilesAffectedBy(s, nextKey, s.currentAffectedFilesSignatures)
    IN  [updateSignaturesFromCache(s, r.cache) EXCEPT
           !.currentAffectedFilesSignatures = r.cache,
           !.affectedFiles = Some(r.files),
           !.currentChangedFilePath = nextKey,
           !.semanticDiagnosticsPerFile = CacheDelete(s.semanticDiagnosticsPerFile, nextKey),
           !.affectedFilesIndex = 0]

StartBatch(s, nextKey) ==
    LET r == getFilesAffectedBy(s, nextKey, s.currentAffectedFilesSignatures)
    IN  [s EXCEPT
           !.currentAffectedFilesSignatures = r.cache,
           !.affectedFiles = Some(r.files),
           !.currentChangedFilePath = nextKey,
           !.semanticDiagnosticsPerFile = CacheDelete(s.semanticDiagnosticsPerFile, nextKey),
           !.affectedFilesIndex = 0]

\* getNextAffectedFile(state, cancellationToken, computeHash):
\* [state |-> the state afterwards, affected |-> a path, WholeProgram or
\*  Undefined].  Indices of affectedFiles are 0-based in the state.
RECURSIVE getNextAffectedFile(_)
getNextAffectedFile(s) ==
    IF s.affectedFiles # None
    THEN LET affectedFiles == Get(s.affectedFiles)
             i == FirstUnseen(affectedFiles, s.seenAffectedFiles, s.affectedFilesIndex + 1)
         IN  IF i <= Len(affectedFiles)
             THEN [state |-> YieldAffected(s, i), affected |-> affectedFiles[i]]
             ELSE getNextAffectedFile(FinishBatch(s))
    ELSE IF s.changedFilesSet = <<>> THEN [state |-> s, affected |-> Undefined]
    ELSE IF s.program.outFile THEN [state |-> s, affected |-> WholeProgram]
    ELSE getNextAffectedFile(StartBatch(s, s.changedFilesSet[1]))

\* doneWithAffectedFile(state, affected)
\* A variant that advances the cursor without marking the file seen.
doneWithAffectedFileNotMarkingSeen(s, affected) ==
    IF affected = WholeProgram
    THEN [s EXCEPT !.changedFilesSet = <<>>]
    ELSE [s EXCEPT !.affectedFilesIndex = s.affectedFilesIndex + 1]

\* A variant that, for the whole program, removes one changed file only.
doneWithAffectedFileRemovingOne(s, affected) ==
    IF affected = WholeProgram
    THEN [s EXCEPT !.changedFilesSet = Tail(s.changedFilesSet)]
    ELSE [s EXCEPT !.seenAffectedFiles = s.seenAffectedFiles \cup {affected},
                   !.affectedFilesIndex = s.affectedFilesIndex + 1]

doneWithAffectedFile(s, affected) ==
    IF affected = WholeProgram
    THEN [s EXCEPT !.changedFilesSet = <<>>]
    ELSE [s EXCEPT !.seenAffectedFiles = s.seenAffectedFiles \cup {affected},
                   !.affectedFilesIndex = s.affectedFilesIndex + 1]

\* The condition asserted by assertSourceFileOkWithoutNextAffectedCall.
\* A variant that reads the cursor whether or not a batch is in progress.
SourceFileOkWhateverBatch(s, sourceFile) ==
    \/ sourceFile = Undefined
    \/ s.program.outFile
    \/ s.affectedFilesIndex # 1
    \/ Get(s.semanticDiagnosticsPerFile)[sourceFile] = NoDiagnostics

SourceFileOkWithoutNextAffectedCall(s, sourceFile) ==
    \/ sourceFile = Undefined
    \/ s.affectedFiles = None
    \/ ~ ( /\ s.affectedFilesIndex - 1 >= 0
           /\ s.affectedFilesIndex - 1 < Len(Get(s.affectedFiles))
           /\ Get(s.affectedFiles)[s.affectedFilesIndex] = sourceFile )
    \/ Get(s.semanticDiagnosticsPerFile)[sourceFile] = NoDiagnostics

\* getSemanticDiagnosticsOfFile(state, sourceFile, cancellationToken):
\* [state, result, calls |-> the files the program was queried for].
getSemanticDiagnosticsOfFile(s, sourceFile) ==
    LET cachedDiagnostics == Get(s.semanticDiagnosticsPerFile)[sourceFile]
    IN  IF cachedDiagnostics # NoDiagnostics
        THEN [state |-> s, result |-> cachedDiagnostics, calls |-> <<>>]
        ELSE LET diagnostics == ProgramDiagnostics(s.program, sourceFile)
             IN  [state |-> [s EXCEPT !.semanticDiagnosticsPerFile =
                                 Some([Get(s.semanticDiagnosticsPerFile) EXCEPT ![sourceFile] = diagnostics])],
                  result |-> diagnostics,
                  calls |-> <<sourceFile>>]

(* ---------------------------------------------------------------------- *)
(* builder.ts: facade operations                                           *)
(*                                                                         *)
(* Every operation returns an outcome record:                              *)
(*   state     the builder state afterwards                                *)
(*   yielded   the affected unit handed out by getNextAffectedFile and not *)
(*             yet committed by doneWithAffectedFile (Undefined if none)   *)
(*   failed    a Debug.assert fired                                        *)
(*   cancelled the cancellation token tripped inside a program call        *)
(*   affected  the affected unit of the returned AffectedFileResult        *)
(*   result    the diagnostics returned, one number per file               *)
(*   calls     the program.getSemanticDiagnostics calls made, in order     *)
(*   emits     the program.emit calls made, in order                       *)
(*   emitResult the EmitResult returned (NoEmitResult if none)             *)
(*   skipped   the affected files ignoreSourceFile returned true for       *)
(* cancelAt is the number of the program call at which the cancellation    *)
(* token trips (0: never).                                                 *)
(* ---------------------------------------------------------------------- *)

\* program.emit(targetSourceFile, ...): emit of a file is skipped, with one
\* diagnostic, when it references a path that is not a file of the program;
\* for the whole program the files are emitted in order.
FileEmitSkipped(prog, f) == \E q \in prog.refs[f] : prog.version[q] = 0

RECURSIVE Select(_, _, _)
Select(files, i, keep) ==
    IF i > Len(files) THEN <<>>
    ELSE (IF keep[files[i]] THEN <<files[i]>> ELSE <<>>) \o Select(files, i + 1, keep)

ProgramEmit(prog, target) ==
    LET files == IF target \in Paths THEN <<target>> ELSE InOrder(ProgramFiles(prog))
        skipped == [f \in Paths |-> prog.version[f] # 0 /\ FileEmitSkipped(prog, f)]
        written == [f \in Paths |-> ~ skipped[f]]
    IN  [emitSkipped |-> Some(\E i \in 1..Len(files) : skipped[files[i]]),
         diagnostics |-> Select(files, 1, skipped),
         emittedFiles |-> Select(files, 1, written),
         sourceMaps |-> Select(files, 1, written)]

\* The EmitResult of emit() before any affected unit is merged (line 312-315).
NoEmitResult ==
    [emitSkipped |-> None, diagnostics |-> <<>>, emittedFiles |-> <<>>, sourceMaps |-> <<>>]

\* Line 319-322: merge the result of the next affected unit.
\* A variant that takes emitSkipped of the last unit.
MergeEmitResultKeepingLast(merged, result) ==
    [emitSkipped |-> result.emitSkipped,
     diagnostics |-> merged.diagnostics \o result.diagnostics,
     emittedFiles |-> merged.emittedFiles \o result.emittedFiles,
     sourceMaps |-> merged.sourceMaps \o result.sourceMaps]

MergeEmitResult(merged, result) ==
    [emitSkipped |-> IF merged.emitSkipped = Some(TRUE) THEN merged.emitSkipped
                     ELSE result.emitSkipped,
     diagnostics |-> merged.diagnostics \o result.diagnostics,
     emittedFiles |-> merged.emittedFiles \o result.emittedFiles,
     sourceMaps |-> merged.sourceMaps \o result.sourceMaps]

Outcome(s, y) ==
    [state |-> s, yielded |-> y, failed |-> FALSE, cancelled |-> FALSE,
     affected |-> Undefined, result |-> <<>>, calls |-> <<>>, emits |-> <<>>,
     emitResult |-> NoEmitResult, skipped |-> <<>>]

\* program.getSemanticDiagnostics(undefined): the diagnostics of every file.
ProgramDiagnosticsAll(prog) ==
    [i \in 1..Len(InOrder(ProgramFiles(prog))) |->
        ProgramDiagnostics(prog, InOrder(ProgramFiles(prog))[i])]

\* The loop of line 394-397: exhaust the iterator, committing every yield.
\* A variant that commits the first affected unit only.
DrainAffectedOnce(s) ==
    LET r == getNextAffectedFile(s)
    IN  IF r.affected = Undefined THEN r.state
        ELSE doneWithAffectedFile(r.state, r.affected)

RECURSIVE DrainAffected(_)
DrainAffected(s) ==
    LET r == getNextAffectedFile(s)
    IN  IF r.affected = Undefined THEN r.state
        ELSE DrainAffected(doneWithAffectedFile(r.state, r.affected))

\* The loop of line 400-403 over the source files, from the i-th on.
RECURSIVE ReadAllDiagnostics(_, _, _, _)
ReadAllDiagnostics(o, files, i, cancelAt) ==
    IF i > Len(files) THEN o
    ELSE LET r == getSemanticDiagnosticsOfFile(o.state, files[i])
         IN  IF r.calls # <<>> /\ Len(o.calls) + 1 = cancelAt
             THEN [o EXCEPT !.cancelled = TRUE, !.result = <<>>]
             ELSE ReadAllDiagnostics(
                      [o EXCEPT !.state = r.state,
                                !.result = Append(o.result, r.result),
                                !.calls = o.calls \o r.calls],
                      files, i + 1, cancelAt)

\* getSemanticDiagnostics(sourceFile?, cancellationToken?)
getSemanticDiagnostics(s, kind, y, sourceFile, cancelAt) ==
    IF ~ SourceFileOkWithoutNextAffectedCall(s, sourceFile)
    THEN [Outcome(s, y) EXCEPT !.failed = TRUE]
    ELSE IF s.program.outFile
    THEN IF cancelAt = 1
         THEN [Outcome(s, y) EXCEPT !.cancelled = TRUE]
         ELSE [Outcome(s, y) EXCEPT
                 !.result = IF sourceFile = Undefined THEN ProgramDiagnosticsAll(s.program)
                            ELSE <<ProgramDiagnostics(s.program, sourceFile)>>,
                 !.calls = <<sourceFile>>]
    ELSE IF sourceFile # Undefined
    THEN LET r == getSemanticDiagnosticsOfFile(s, sourceFile)
         IN  IF r.calls # <<>> /\ cancelAt = 1
             THEN [Outcome(s, y) EXCEPT !.cancelled = TRUE]
             ELSE [Outcome(r.state, y) EXCEPT !.result = <<r.result>>, !.calls = r.calls]
    ELSE IF kind = SemanticDiagnosticsBuilderProgram
    THEN ReadAllDiagnostics(Outcome(DrainAffected(s), Undefined),
                            InOrder(ProgramFiles(s.program)), 1, cancelAt)
    ELSE ReadAllDiagnostics(Outcome(s, y), InOrder(ProgramFiles(s.program)), 1, cancelAt)

\* The outcome o of a later iteration of the loop of line 340-367, after the
\* file skipped in this iteration.
AfterSkipped(skippedFile, o) == [o EXCEPT !.skipped = <<skippedFile>> \o o.skipped]

\* getSemanticDiagnosticsOfNextAffectedFile(cancellationToken?, ignoreSourceFile?)
\* with ignoreSourceFile the predicate "the file is in ignored".
\* A variant that analyses an ignored file before committing it.
RECURSIVE getSemanticDiagnosticsOfNextAffectedFileAnalysingIgnored(_, _, _)
getSemanticDiagnosticsOfNextAffectedFileAnalysingIgnored(s, ignored, cancelAt) ==
    LET n == getNextAffectedFile(s)
    IN  IF n.affected = Undefined THEN Outcome(n.state, Undefined)
        ELSE IF n.affected = WholeProgram
        THEN IF cancelAt = 1
             THEN [Outcome(n.state, WholeProgram) EXCEPT !.cancelled = TRUE]
             ELSE [Outcome(doneWithAffectedFile(n.state, WholeProgram), Undefined) EXCEPT
                     !.affected = WholeProgram,
                     !.result = ProgramDiagnosticsAll(n.state.program),
                     !.calls = <<Undefined>>]
        ELSE LET r == getSemanticDiagnosticsOfFile(n.state, n.affected)
             IN  IF r.calls # <<>> /\ cancelAt = 1
                 THEN [Outcome(n.state, n.affected) EXCEPT !.cancelled = TRUE]
                 ELSE IF n.affected \in ignored
                 THEN AfterSkipped(n.affected,
                          getSemanticDiagnosticsOfNextAffectedFileAnalysingIgnored(
                              doneWithAffectedFile(r.state, n.affected), ignored, 0))
                 ELSE [Outcome(doneWithAffectedFile(r.state, n.affected), Undefined) EXCEPT
                         !.affected = n.affected,
                         !.result = <<r.result>>,
                         !.calls = r.calls]

RECURSIVE getSemanticDiagnosticsOfNextAffectedFile(_, _, _)
getSemanticDiagnosticsOfNextAffectedFile(s, ignored, cancelAt) ==
    LET n == getNextAffectedFile(s)
    IN  IF n.affected = Undefined THEN Outcome(n.state, Undefined)
        ELSE IF n.affected = WholeProgram
        THEN IF cancelAt = 1
             THEN [Outcome(n.state, WholeProgram) EXCEPT !.cancelled = TRUE]
             ELSE [Outcome(doneWithAffectedFile(n.state, WholeProgram), Undefined) EXCEPT
                     !.affected = WholeProgram,
                     !.result = ProgramDiagnosticsAll(n.state.program),
                     !.calls = <<Undefined>>]
        ELSE IF n.affected \in ignored
        THEN AfterSkipped(n.affected,
                 getSemanticDiagnosticsOfNextAffectedFile(
                     doneWithAffectedFile(n.state, n.affected), ignored, cancelAt))
        ELSE LET r == getSemanticDiagnosticsOfFile(n.state, n.affected)
             IN  IF r.calls # <<>> /\ cancelAt = 1
                 THEN [Outcome(n.state, n.affected) EXCEPT !.cancelled = TRUE]
                 ELSE [Outcome(doneWithAffectedFile(r.state, n.affected), Undefined) EXCEPT
                         !.affected = n.affected,
                         !.result = <<r.result>>,
                         !.calls = r.calls]

\* emitNextAffectedFile(writeFile?, cancellationToken?, ...)
emitNextAffectedFile(s, cancelAt) ==
    LET n == getNextAffectedFile(s)
    IN  IF n.affected = Undefined THEN Outcome(n.state, Undefined)
        ELSE IF cancelAt = 1
        THEN [Outcome(n.state, n.affected) EXCEPT !.cancelled = TRUE]
        ELSE [Outcome(doneWithAffectedFile(n.state, n.affected), Undefined) EXCEPT
                !.affected = n.affected,
                !.emits = <<n.affected>>,
                !.emitResult = ProgramEmit(n.state.program, n.affected)]

\* The loop of line 318-323: emit affected units until none is left.
RECURSIVE EmitAllAffected(_, _)
EmitAllAffected(o, cancelAt) ==
    LET r == emitNextAffectedFile(o.state, IF Len(o.emits) + 1 = cancelAt THEN 1 ELSE 0)
    IN  IF r.cancelled THEN [r EXCEPT !.emits = o.emits]
        ELSE IF r.affected = Undefined THEN [o EXCEPT !.state = r.state, !.yielded = Undefined]
        ELSE EmitAllAffected([o EXCEPT !.state = r.state, !.yielded = Undefined,
                                       !.emits = o.emits \o r.emits,
                                       !.emitResult = MergeEmitResult(o.emitResult, r.emitResult)],
                             cancelAt)

\* emit(targetSourceFile?, writeFile?, cancellationToken?, ...)
emit(s, kind, y, targetSourceFile, cancelAt) ==
    IF kind = EmitAndSemanticDiagnosticsBuilderProgram
       /\ ~ SourceFileOkWithoutNextAffectedCall(s, targetSourceFile)
    THEN [Outcome(s, y) EXCEPT !.failed = TRUE]
    ELSE IF kind = EmitAndSemanticDiagnosticsBuilderProgram /\ targetSourceFile = Undefined
    THEN EmitAllAffected(Outcome(s, y), cancelAt)
    ELSE IF cancelAt = 1
    THEN [Outcome(s, y) EXCEPT !.cancelled = TRUE]
    ELSE [Outcome(s, y) EXCEPT !.emits = <<targetSourceFile>>,
                               !.emitResult = ProgramEmit(s.program, targetSourceFile)]

(* ---------------------------------------------------------------------- *)
(* Programs and their edits                                                *)
(* ---------------------------------------------------------------------- *)

AllowedRefs(p) == {q \in Paths : <<p, q>> \in RefEdges}

\* The first program built: every file at version 1, c -> b -> a, or the same
\* program without the file c (which a rebuild may then add).
InitialPrograms ==
    { [version |-> [p \in Paths |-> 1], refs |-> [a |-> {}, b |-> {"a"}, c |-> {"b"}],
       outFile |-> o, module |-> m] :
        o \in BOOLEAN, m \in BOOLEAN }
    \cup { [version |-> [a |-> 1, b |-> 1, c |-> 0], refs |-> [a |-> {}, b |-> {"a"}, c |-> {}],
             outFile |-> o, module |-> m] :
              o \in BOOLEAN, m \in BOOLEAN }

\* The programs a rebuild may be given: prog again (a new program object with
\* the same content) or prog after one edit: a file edited or added, a file
\* deleted, the references of a file changed, an option toggled.
EditedPrograms(prog) ==
    { [prog EXCEPT !.version[p] = v] :
        p \in Paths, v \in (1..MaxVersion) }
    \cup { [prog EXCEPT !.version[p] = 0, !.refs[p] = {}] :
        p \in {q \in ProgramFiles(prog) : ProgramFiles(prog) # {q}} }
    \cup UNION { { [prog EXCEPT !.refs[p] = r] : r \in SUBSET AllowedRefs(p) } :
                p \in ProgramFiles(prog) }
    \cup { [prog EXCEPT !.outFile = ~ prog.outFile], [prog EXCEPT !.module = ~ prog.module] }

(* ---------------------------------------------------------------------- *)
(* State machine                                                           *)
(* ---------------------------------------------------------------------- *)

VARIABLES
    state,     \* the BuilderProgramState of the current builder
    kind,      \* the BuilderProgramKind of the current builder
    yielded,   \* the affected unit yielded and not yet committed
    last,      \* the last operation: its name, argument and outcome
    builds,    \* the number of builders created from an old builder's state
    pc         \* the position of a caller's drain loop: "next" before its call
               \* of getNextAffectedFile, "done" before its call of
               \* doneWithAffectedFile, "end" when no loop is running

vars == <<state, kind, yielded, last, builds, pc>>

\* The record of an operation; old is the old state handed to
\* createBuilderProgram (None for the other operations).
Op(name, arg, o, old) ==
    [op |-> name, arg |-> arg, failed |-> o.failed, cancelled |-> o.cancelled,
     affected |-> o.affected, result |-> o.result, calls |-> o.calls, emits |-> o.emits,
     emitResult |-> o.emitResult, skipped |-> o.skipped, old |-> old]

Init ==
    \E prog \in InitialPrograms, k \in BuilderProgramKind :
        /\ state = createBuilderProgramState(prog, None).state
        /\ kind = k
        /\ yielded = Undefined
        /\ last = Op("createBuilderProgram", "noOldProgram", Outcome(state, Undefined), None)
        /\ builds = 0
        /\ pc = "end"

\* createBuilderProgram(newProgram, host, oldProgram, kind) with a program
\* object other than the one of the old builder.
CreateBuilderProgram ==
    /\ builds < MaxBuilds
    /\ builds' = builds + 1
    /\ pc' = pc
    /\ \E prog \in EditedPrograms(state.program), k \in BuilderProgramKind :
        LET c == createBuilderProgramState(prog, Some(state))
        IN  IF c.failed
            THEN /\ last' = Op("createBuilderProgram", "newProgram",
                               [Outcome(state, yielded) EXCEPT !.failed = TRUE], Some(state))
                 /\ UNCHANGED <<state, kind, yielded>>
            ELSE /\ state' = c.state
                 /\ kind' = k
                 /\ yielded' = Undefined
                 /\ last' = Op("createBuilderProgram", "newProgram",
                               Outcome(c.state, Undefined), Some(state))

\* createBuilderProgram(newProgram, host, oldProgram, kind) with the very
\* program of the old builder (line 227-232): the old builder is returned.
\* A variant without the shortcut: a state is constructed for the same program
\* and a builder of the requested kind is returned.
CreateBuilderProgramSameProgramRebuilding ==
    \E k \in BuilderProgramKind :
        LET c == createBuilderProgramState(state.program, Some(state))
        IN  /\ state' = c.state
            /\ kind' = k
            /\ yielded' = Undefined
            /\ last' = Op("createBuilderProgram", "sameProgram",
                          Outcome(c.state, Undefined), Some(state))
            /\ UNCHANGED <<builds, pc>>

CreateBuilderProgramSameProgram ==
    /\ \E k \in BuilderProgramKind :
          last' = Op("createBuilderProgram", "sameProgram", Outcome(state, yielded), Some(state))
    /\ UNCHANGED <<state, kind, yielded, builds, pc>>

Apply(name, arg, o) ==
    /\ state' = o.state
    /\ yielded' = o.yielded
    /\ last' = Op(name, arg, o, None)
    /\ UNCHANGED <<kind, builds, pc>>

\* The program calls of one operation at which the cancellation token may
\* throw: none (0) or the n-th; an operation makes at most one program call
\* per source file (line 400-403, line 318).
CancelPoints == 0..Cardinality(Paths)

GetSemanticDiagnostics ==
    \E sourceFile \in ProgramFiles(state.program) \cup {Undefined}, cancelAt \in CancelPoints :
        Apply("getSemanticDiagnostics", sourceFile,
              getSemanticDiagnostics(state, kind, yielded, sourceFile, cancelAt))

GetSemanticDiagnosticsOfNextAffectedFile ==
    /\ kind = SemanticDiagnosticsBuilderProgram
    /\ \E ignored \in SUBSET Paths, cancelAt \in 0..1 :
          Apply("getSemanticDiagnosticsOfNextAffectedFile", Undefined,
                getSemanticDiagnosticsOfNextAffectedFile(state, ignored, cancelAt))

EmitNextAffectedFile ==
    /\ kind = EmitAndSemanticDiagnosticsBuilderProgram
    /\ \E cancelAt \in 0..1 :
          Apply("emitNextAffectedFile", Undefined, emitNextAffectedFile(state, cancelAt))

Emit ==
    \E targetSourceFile \in ProgramFiles(state.program) \cup {Undefined}, cancelAt \in CancelPoints :
        Apply("emit", targetSourceFile, emit(state, kind, yielded, targetSourceFile, cancelAt))

Next ==
    \/ CreateBuilderProgram
    \/ CreateBuilderProgramSameProgram
    \/ GetSemanticDiagnostics
    \/ GetSemanticDiagnosticsOfNextAffectedFile
    \/ EmitNextAffectedFile
    \/ Emit

Spec == Init /\ [][Next]_vars

(* ---------------------------------------------------------------------- *)
(* Claims                                                                  *)
(* ---------------------------------------------------------------------- *)

PerFileMode == ~ state.program.outFile

NextAffectedOps == {"getSemanticDiagnosticsOfNextAffectedFile", "emitNextAffectedFile"}

\* C1 (cancellation idempotence): in per-file mode, from every reachable
\* state, when getNextAffectedFile yields a file f and is called again with no
\* doneWithAffectedFile in between, the second call yields f again and leaves
\* the whole state as the first call left it; f has no cache entry and the
\* root being expanded is still in changedFilesSet.
C1_CancellationIdempotence ==
    PerFileMode =>
        LET first == getNextAffectedFile(state)
            second == getNextAffectedFile(first.state)
        IN  first.affected \in Paths =>
                /\ second.affected = first.affected
                /\ second.state = first.state
                /\ Get(first.state.semanticDiagnosticsPerFile)[first.affected] = NoDiagnostics
                /\ first.state.currentChangedFilePath \in Range(first.state.changedFilesSet)

\* A file other than the first of its batch was yielded, the caller's program
\* call was cancelled, and the file is still pending.
C1_Witness ==
    /\ PerFileMode
    /\ last.op \in NextAffectedOps
    /\ last.cancelled
    /\ yielded \in Paths
    /\ state.affectedFilesIndex > 0
    /\ getNextAffectedFile(state).affected = yielded

\* C2 (cache purity): in every reachable state every path that has an entry
\* in semanticDiagnosticsPerFile is neither in changedFilesSet nor the file
\* most recently yielded by getNextAffectedFile and not yet committed.
C2_CachePurity ==
    PerFileMode =>
        \A p \in Paths :
            Get(state.semanticDiagnosticsPerFile)[p] # NoDiagnostics =>
                /\ p \notin Range(state.changedFilesSet)
                /\ p # yielded

\* The diagnostics getSemanticDiagnostics() returns in the current state.
WholeProgramDiagnostics == getSemanticDiagnostics(state, kind, yielded, Undefined, 0)

\* C3 (diagnostics equivalence), as claimed: for either builder variant and
\* after any sequence of builds, getSemanticDiagnostics() returns, file by
\* file, the diagnostics the current program returns when queried directly.
C3_DiagnosticsEquivalence ==
    WholeProgramDiagnostics.result = ProgramDiagnosticsAll(state.program)

\* C4 (exhaustion): from every reachable state, alternating
\* getNextAffectedFile and doneWithAffectedFile until getNextAffectedFile
\* returns undefined leaves changedFilesSet empty, affectedFiles and
\* currentChangedFilePath absent and currentAffectedFilesSignatures empty.
C4_Exhaustion ==
    LET s == DrainAffected(state)
    IN  /\ s.changedFilesSet = <<>>
        /\ s.affectedFiles = None
        /\ s.currentChangedFilePath = Undefined
        /\ \A p \in Paths : s.currentAffectedFilesSignatures[p] = NoSignature

\* emit() ran the iterator to its end over at least two affected files.
C4_Witness ==
    /\ last.op = "emit" /\ last.arg = Undefined
    /\ kind = EmitAndSemanticDiagnosticsBuilderProgram
    /\ ~ last.cancelled
    /\ Len(last.emits) >= 2
    /\ state.changedFilesSet = <<>>
    /\ state.affectedFiles = None
    /\ \E p \in Paths : state.fileInfos[p].signature # NoSignature

\* The last operation built a new state from an old one.
Created ==
    /\ last.op = "createBuilderProgram"
    /\ last.arg = "newProgram"
    /\ ~ last.failed

\* The old state the current state was built from.
OldState == Get(last.old)

\* The keys of the reference set of p in state s.
RefKeys(s, p) == IF s.referencedMap = None THEN {} ELSE Get(s.referencedMap)[p]

\* (a) the version of p differs from the old one (or p is new).
VersionDiffers(p) == OldState.fileInfos[p].version # state.fileInfos[p].version

\* (b) a file referenced by p was in the old fileInfos and is not in the new.
ReferenceDeleted(p) ==
    \E q \in RefKeys(OldState, p) \cup RefKeys(state, p) :
        OldState.fileInfos[q].version # 0 /\ state.fileInfos[q].version = 0

\* (c) the reference set of p differs in key membership from the old one.
ReferencesDiffer(p) == RefKeys(OldState, p) # RefKeys(state, p)

\* C5 (diff completeness): in a state built from an old state, every file of
\* the new program whose version differs, that references a file the old
\* state had and the new one has not, or whose reference set differs in key
\* membership, is in changedFilesSet.
C5_DiffCompleteness ==
    Created =>
        \A p \in ProgramFiles(state.program) :
            (VersionDiffers(p) \/ ReferenceDeleted(p) \/ ReferencesDiffer(p)) =>
                p \in Range(state.changedFilesSet)

\* A reused old state that had nothing changed; a file still referenced by p
\* was deleted, p itself is as before, and p is the one changed file.
C5_Witness ==
    /\ Created
    /\ canReuseOldState(state.referencedMap, last.old)
    /\ OldState.changedFilesSet = <<>>
    /\ \E p \in ProgramFiles(state.program) :
          /\ ~ VersionDiffers(p) /\ ~ ReferencesDiffer(p) /\ ReferenceDeleted(p)
          /\ state.changedFilesSet = <<p>>

\* Likewise with a file whose references were retargeted (same size).
C5_WitnessReferences ==
    /\ Created
    /\ canReuseOldState(state.referencedMap, last.old)
    /\ OldState.changedFilesSet = <<>>
    /\ \E p \in ProgramFiles(state.program) :
          /\ ~ VersionDiffers(p) /\ ~ ReferenceDeleted(p) /\ ReferencesDiffer(p)
          /\ Cardinality(RefKeys(OldState, p)) = Cardinality(RefKeys(state, p))
          /\ state.changedFilesSet = <<p>>

\* C6 (whole-program collapse): in bundled-output mode, in every reachable
\* state, getNextAffectedFile returns the whole program iff changedFilesSet
\* is non-empty and undefined otherwise, starts no batch, and
\* doneWithAffectedFile on the whole program empties changedFilesSet, after
\* which getNextAffectedFile returns undefined.
C6_WholeProgramCollapse ==
    state.program.outFile =>
        LET n == getNextAffectedFile(state)
            d == doneWithAffectedFile(n.state, WholeProgram)
        IN  /\ (n.affected = WholeProgram) <=> (state.changedFilesSet # <<>>)
            /\ n.affected \in {WholeProgram, Undefined}
            /\ n.state.affectedFiles = None
            /\ n.state.currentChangedFilePath = Undefined
            /\ n.affected = WholeProgram =>
                  /\ d.changedFilesSet = <<>>
                  /\ getNextAffectedFile(d).affected = Undefined

\* A bundled-output builder made from an old state handed out the whole
\* program, the unit was committed and nothing is left to iterate.
C6_Witness ==
    /\ state.program.outFile
    /\ builds >= 1
    /\ last.op \in NextAffectedOps
    /\ last.affected = WholeProgram
    /\ ~ last.cancelled
    /\ state.changedFilesSet = <<>>
    /\ getNextAffectedFile(state).affected = Undefined

\* In the current state a getNextAffectedFile call writes fileInfos only if
\* it completes a batch (a root leaves changedFilesSet in it); the signatures
\* pending in the batch it leaves in progress are not committed; and neither
\* doneWithAffectedFile nor getSemanticDiagnosticsOfFile writes fileInfos.
SignaturesWrittenAtExhaustionOnly ==
    LET n == getNextAffectedFile(state)
    IN  /\ n.state.fileInfos # state.fileInfos =>
              Len(n.state.changedFilesSet) < Len(state.changedFilesSet)
        /\ \A p \in Paths :
              n.state.currentAffectedFilesSignatures[p] # NoSignature =>
                  /\ n.state.affectedFiles # None
                  /\ p \notin n.state.hasCalledUpdateShapeSignature
        /\ \A f \in Paths \cup {WholeProgram} :
              doneWithAffectedFile(state, f).fileInfos = state.fileInfos
        /\ PerFileMode =>
              \A f \in ProgramFiles(state.program) :
                  getSemanticDiagnosticsOfFile(state, f).state.fileInfos = state.fileInfos

\* A step of one builder that changes fileInfos completes a batch: a root
\* leaves changedFilesSet in it.
SignaturesChangeWithCompletedBatch ==
    (builds' = builds /\ state'.fileInfos # state.fileInfos) =>
        /\ Len(state'.changedFilesSet) < Len(state.changedFilesSet)
        /\ \A p \in Paths : state'.fileInfos[p].version = state.fileInfos[p].version

\* C7 (commit monotonicity): the signature stored in fileInfos changes only
\* where getNextAffectedFile finds the current batch exhausted; from the
\* start of a batch until then the recomputed signatures are held in
\* currentAffectedFilesSignatures only, whatever calls are interleaved.
C7_CommitMonotonicity ==
    /\ [] SignaturesWrittenAtExhaustionOnly
    /\ [][SignaturesChangeWithCompletedBatch]_vars

\* In a builder made from an old state a batch is under way, one of its
\* files is committed, and a recomputed signature that differs from the
\* stored one is pending while fileInfos still holds the stored one.
C7_Witness ==
    /\ builds >= 1
    /\ state.affectedFiles # None
    /\ state.affectedFilesIndex > 0
    /\ \E p \in Paths :
          /\ state.fileInfos[p].signature # NoSignature
          /\ state.currentAffectedFilesSignatures[p] # NoSignature
          /\ state.currentAffectedFilesSignatures[p] # state.fileInfos[p].signature

\* C8 (fail-fast precondition), as claimed: getSemanticDiagnostics(file), and
\* on the emit variant emit(file), fails, leaving the state as it is, exactly
\* when file is the affected file yielded and not yet committed.
C8_FailFastPrecondition ==
    \A f \in ProgramFiles(state.program) :
        LET g == getSemanticDiagnostics(state, kind, yielded, f, 0)
            e == emit(state, kind, yielded, f, 0)
        IN  /\ g.failed <=> (f = yielded)
            /\ g.failed => g.state = state
            /\ kind = EmitAndSemanticDiagnosticsBuilderProgram =>
                  /\ e.failed <=> (f = yielded)
                  /\ e.failed => e.state = state

\* C9 (read path), as claimed: in per-file mode, for every file of the
\* program other than the yielded uncommitted one, getSemanticDiagnostics(file)
\* returns the cached entry without a program call when there is one, and
\* otherwise calls the program once, stores and returns the result; a second
\* request succeeds with the same value and no program call.
C9_ReadPath ==
    PerFileMode =>
        \A f \in ProgramFiles(state.program) \ {yielded} :
            LET cached == Get(state.semanticDiagnosticsPerFile)[f]
                first == getSemanticDiagnostics(state, kind, yielded, f, 0)
                second == getSemanticDiagnostics(first.state, kind, first.yielded, f, 0)
            IN  /\ ~ first.failed
                /\ first.result = <<IF cached # NoDiagnostics THEN cached
                                    ELSE ProgramDiagnostics(state.program, f)>>
                /\ first.calls = IF cached # NoDiagnostics THEN <<>> ELSE <<f>>
                /\ Get(first.state.semanticDiagnosticsPerFile)[f] = first.result[1]
                /\ ~ second.failed
                /\ second.result = first.result
                /\ second.calls = <<>>

\* The iterator is exhausted: nothing is changed and no batch is in progress.
Exhausted(s) == s.changedFilesSet = <<>> /\ s.affectedFiles = None

\* The old state was fully drained and holds a cache entry for every file,
\* and the new program has the same files, versions and reference sets.
NoChangeRebuild ==
    /\ Created
    /\ Exhausted(OldState)
    /\ OldState.semanticDiagnosticsPerFile # None
    /\ \A p \in ProgramFiles(OldState.program) :
          Get(OldState.semanticDiagnosticsPerFile)[p] # NoDiagnostics
    /\ state.program.version = OldState.program.version
    /\ state.program.refs = OldState.program.refs

\* The new state has nothing changed and answers getSemanticDiagnostics()
\* without a call to the program.
NothingToRecompute ==
    /\ state.changedFilesSet = <<>>
    /\ ~ WholeProgramDiagnostics.failed
    /\ WholeProgramDiagnostics.calls = <<>>

\* C10 (no-change rebuild), as claimed: after a no-change rebuild from a
\* drained, fully cached old state the new changedFilesSet is empty and
\* getSemanticDiagnostics() makes no program call.
C10_NoChangeRebuild == NoChangeRebuild => NothingToRecompute

\* C10 amended: the same when, moreover, the new program is in per-file mode
\* and tracks references iff the old one does.
C10_NoChangeRebuildSameOptions ==
    ( /\ NoChangeRebuild
      /\ ~ state.program.outFile
      /\ state.program.module = OldState.program.module ) => NothingToRecompute

\* A drained, fully cached state over files with references was rebuilt with
\* an unchanged program, and every entry was copied.
C10_Witness ==
    /\ NoChangeRebuild
    /\ ~ state.program.outFile
    /\ state.program.module /\ OldState.program.module
    /\ Cardinality(ProgramFiles(state.program)) >= 2
    /\ state.semanticDiagnosticsPerFile = OldState.semanticDiagnosticsPerFile
    /\ WholeProgramDiagnostics.result = ProgramDiagnosticsAll(state.program)
    /\ NothingToRecompute

\* C11 (ignore predicate): on the diagnostics-only variant,
\* getSemanticDiagnosticsOfNextAffectedFile with a predicate true of the
\* files in ignored commits every affected file of ignored it comes to (the
\* file is seen and is not yielded again) with no program call for it and no
\* cache entry left for it, and returns the next affected file not in
\* ignored, analysed by one program call, or undefined when none remains.
C11_IgnorePredicate ==
    kind = SemanticDiagnosticsBuilderProgram =>
        \A ignored \in SUBSET Paths :
            LET r == getSemanticDiagnosticsOfNextAffectedFile(state, ignored, 0)
            IN  /\ \A i \in 1..Len(r.skipped) :
                      /\ r.skipped[i] \in ignored
                      /\ r.skipped[i] \in r.state.seenAffectedFiles
                      /\ r.skipped[i] \notin Range(r.calls)
                      /\ Get(r.state.semanticDiagnosticsPerFile)[r.skipped[i]] = NoDiagnostics
                      /\ getNextAffectedFile(r.state).affected # r.skipped[i]
                /\ r.affected \notin ignored
                /\ r.affected \in Paths =>
                      /\ r.calls = <<r.affected>>
                      /\ r.result = <<ProgramDiagnostics(state.program, r.affected)>>
                /\ r.affected = Undefined =>
                      /\ r.calls = <<>>
                      /\ Exhausted(r.state)
                /\ LET plain == getSemanticDiagnosticsOfNextAffectedFile(state, {}, 0)
                   IN  plain.affected \notin ignored => r.affected = plain.affected

\* Two affected files were ignored and committed unanalysed, and the third
\* was analysed and returned.
C11_Witness ==
    /\ kind = SemanticDiagnosticsBuilderProgram
    /\ PerFileMode
    /\ last.op = "getSemanticDiagnosticsOfNextAffectedFile"
    /\ Len(last.skipped) = 2
    /\ last.affected \in Paths
    /\ last.calls = <<last.affected>>
    /\ \A i \in 1..2 :
          /\ last.skipped[i] \in state.seenAffectedFiles
          /\ Get(state.semanticDiagnosticsPerFile)[last.skipped[i]] = NoDiagnostics

\* The iterator fields of a state.
IteratorFields(s) ==
    <<s.changedFilesSet, s.affectedFiles, s.affectedFilesIndex, s.seenAffectedFiles>>

\* C12 (whole-program diagnostics): in per-file mode, when
\* getSemanticDiagnostics() with no file returns on the diagnostics-only
\* variant the iterator is exhausted and every source file of the program has
\* a cache entry; on the emit variant the call leaves changedFilesSet,
\* affectedFiles, affectedFilesIndex and seenAffectedFiles as they were.
C12_WholeProgramDiagnostics ==
    PerFileMode =>
        \A cancelAt \in CancelPoints :
            LET r == getSemanticDiagnostics(state, kind, yielded, Undefined, cancelAt)
            IN  /\ ~ r.failed
                /\ (kind = SemanticDiagnosticsBuilderProgram /\ ~ r.cancelled) =>
                      /\ Exhausted(r.state)
                      /\ \A p \in ProgramFiles(state.program) :
                            Get(r.state.semanticDiagnosticsPerFile)[p] # NoDiagnostics
                /\ kind = EmitAndSemanticDiagnosticsBuilderProgram =>
                      IteratorFields(r.state) = IteratorFields(state)

\* A diagnostics-only builder made from an old state returned from
\* getSemanticDiagnostics() after draining at least two affected files, some
\* entries having been copied from the old state.
C12_Witness ==
    /\ PerFileMode
    /\ kind = SemanticDiagnosticsBuilderProgram
    /\ builds >= 1
    /\ last.op = "getSemanticDiagnostics" /\ last.arg = Undefined
    /\ ~ last.cancelled
    /\ Len(last.calls) >= 2
    /\ Len(last.calls) < Len(last.result)
    /\ Exhausted(state)
    /\ \A p \in ProgramFiles(state.program) :
          Get(state.semanticDiagnosticsPerFile)[p] # NoDiagnostics

\* The affected units the iterator hands out from state s when each is
\* committed, in yield order.
RECURSIVE AffectedUnits(_)
AffectedUnits(s) ==
    LET n == getNextAffectedFile(s)
    IN  IF n.affected = Undefined THEN <<>>
        ELSE <<n.affected>> \o AffectedUnits(doneWithAffectedFile(n.state, n.affected))

\* The concatenation of field of the emit results of the units from the i-th.
RECURSIVE ConcatEmitted(_, _, _, _)
ConcatEmitted(prog, units, i, field) ==
    IF i > Len(units) THEN <<>>
    ELSE ProgramEmit(prog, units[i])[field] \o ConcatEmitted(prog, units, i + 1, field)

\* C13 (emit of all affected): on the emit variant emit() with no target
\* file, when it returns, has emitted each affected unit exactly once in
\* yield order and left the iterator exhausted; its emitSkipped is true iff
\* the emit result of some unit had emitSkipped true, and its diagnostics,
\* emitted files and source maps are the concatenations of the units'.
C13_EmitAllAffected ==
    kind = EmitAndSemanticDiagnosticsBuilderProgram =>
        LET r == emit(state, kind, yielded, Undefined, 0)
            prog == state.program
        IN  /\ ~ r.failed /\ ~ r.cancelled
            /\ Exhausted(r.state)
            /\ r.emits = AffectedUnits(state)
            /\ \A i, j \in 1..Len(r.emits) : r.emits[i] = r.emits[j] => i = j
            /\ (r.emitResult.emitSkipped = Some(TRUE)) <=>
                  \E i \in 1..Len(r.emits) :
                      ProgramEmit(prog, r.emits[i]).emitSkipped = Some(TRUE)
            /\ r.emitResult.diagnostics = ConcatEmitted(prog, r.emits, 1, "diagnostics")
            /\ r.emitResult.emittedFiles = ConcatEmitted(prog, r.emits, 1, "emittedFiles")
            /\ r.emitResult.sourceMaps = ConcatEmitted(prog, r.emits, 1, "sourceMaps")

\* emit() emitted two affected files, the first skipped and the second
\* written, and reported emitSkipped.
C13_Witness ==
    /\ kind = EmitAndSemanticDiagnosticsBuilderProgram
    /\ last.op = "emit" /\ last.arg = Undefined
    /\ ~ last.cancelled
    /\ Len(last.emits) = 2
    /\ last.emitResult.emitSkipped = Some(TRUE)
    /\ last.emitResult.diagnostics = <<last.emits[1]>>
    /\ last.emitResult.emittedFiles = <<last.emits[2]>>
    /\ Exhausted(state)

\* C14 (changed files are files of the program), as claimed: in every
\* reachable state, freshly constructed ones included, every path of
\* changedFilesSet is a key of fileInfos.
C14_ChangedFilesWithinFileInfos ==
    \A p \in Range(state.changedFilesSet) : state.fileInfos[p].version # 0

\* The paths of the batch in progress.
BatchPaths(s) == Range(Get(s.affectedFiles))

\* C15 (seen files of the batch), as claimed: while a batch is in progress
\* seenAffectedFiles contains only paths of the current affectedFiles.
C15_SeenWithinBatch ==
    state.affectedFiles # None => state.seenAffectedFiles \subseteq BatchPaths(state)

\* Every seen path is a file of the program, and while a batch is in progress
\* every file of the batch before the cursor is seen.
SeenAreCommittedFiles ==
    /\ state.seenAffectedFiles \subseteq ProgramFiles(state.program)
    /\ state.affectedFiles # None =>
          \A i \in 1..Len(Get(state.affectedFiles)) :
              i <= state.affectedFilesIndex =>
                  Get(state.affectedFiles)[i] \in state.seenAffectedFiles

\* Within one state no path leaves seenAffectedFiles.
SeenNeverForgotten ==
    builds' = builds => state.seenAffectedFiles \subseteq state'.seenAffectedFiles

\* C15 amended: seenAffectedFiles holds the files committed in this and in
\* the earlier batches of the same state: it contains only source files of
\* the program, within a state it only grows (it is not reset when a batch
\* ends or starts), and while a batch is in progress it contains every file
\* of the batch before the cursor.
C15_SeenAcrossBatches ==
    /\ [] SeenAreCommittedFiles
    /\ [][SeenNeverForgotten]_vars

\* A batch is in progress with one of its files committed while a file
\* committed in an earlier batch, not part of this one, is still seen.
C15_Witness ==
    /\ state.affectedFiles # None
    /\ state.affectedFilesIndex >= 1
    /\ Get(state.affectedFiles)[1] \in state.seenAffectedFiles
    /\ \E p \in state.seenAffectedFiles : p \notin BatchPaths(state)

\* C16 (root iff batch): in every state between operations, after cancelled
\* calls included, currentChangedFilePath is present iff affectedFiles is.
C16_RootIffBatch ==
    (state.currentChangedFilePath # Undefined) <=> (state.affectedFiles # None)

\* A call was cancelled in the second or a later batch of a state: an
\* earlier batch was completed, leaving both absent, and both are present.
C16_Witness ==
    /\ last.cancelled
    /\ state.affectedFiles # None
    /\ state.currentChangedFilePath \in Paths
    /\ state.changedFilesSet # <<>>
    /\ state.currentChangedFilePath # state.changedFilesSet[1]
       \/ \E p \in ProgramFiles(state.program) :
             p \notin Range(state.changedFilesSet) /\ p \in state.hasCalledUpdateShapeSignature

\* The simpler iterator: getNextAffectedFile with the cursor written back to
\* state.affectedFilesIndex on every skip, so that a batch exhausted by
\* skipping leaves the cursor at the length of the batch.
RECURSIVE getNextAffectedFileWritingBack(_)
getNextAffectedFileWritingBack(s) ==
    IF s.affectedFiles # None
    THEN LET affectedFiles == Get(s.affectedFiles)
             i == FirstUnseen(affectedFiles, s.seenAffectedFiles, s.affectedFilesIndex + 1)
         IN  IF i <= Len(affectedFiles)
             THEN [state |-> YieldAffected(s, i), affected |-> affectedFiles[i]]
             ELSE getNextAffectedFileWritingBack(
                      FinishBatch([s EXCEPT !.affectedFilesIndex = Len(affectedFiles)]))
    ELSE IF s.changedFilesSet = <<>> THEN [state |-> s, affected |-> Undefined]
    ELSE IF s.program.outFile THEN [state |-> s, affected |-> WholeProgram]
    ELSE getNextAffectedFileWritingBack(StartBatch(s, s.changedFilesSet[1]))

\* The values the cursor can have.
CursorValues == NoIndex..Cardinality(Paths)

\* s and t are the states of the two iterators after the same calls: they
\* differ at most in the cursor, and only while no batch is in progress.
SameButIdleCursor(s, t) ==
    /\ [s EXCEPT !.affectedFilesIndex = NoIndex] = [t EXCEPT !.affectedFilesIndex = NoIndex]
    /\ s.affectedFiles # None => s.affectedFilesIndex = t.affectedFilesIndex

\* The states the simpler iterator can be in when the coded one is in s.
IdleCursorVariants(s) ==
    IF s.affectedFiles # None THEN {s}
    ELSE {[s EXCEPT !.affectedFilesIndex = j] : j \in CursorValues}

\* C17 (cursor write-back equivalence): the coded iterator and the iterator
\* that writes the cursor back on every skip are observably equivalent. From
\* states that differ at most in the cursor of an idle iterator, a call of
\* each iterator yields the same unit and leaves such states again, with the
\* same changedFilesSet, cache, seenAffectedFiles and fileInfos; and the
\* commit, the assertion, the facade operations and the construction of a
\* new state from such states agree.
C17_CursorWriteBackEquivalence ==
    \A t \in IdleCursorVariants(state) :
        LET coded == getNextAffectedFile(state)
            simple == getNextAffectedFileWritingBack(t)
        IN  /\ coded.affected = simple.affected
            /\ SameButIdleCursor(coded.state, simple.state)
            /\ coded.affected # Undefined =>
                  SameButIdleCursor(doneWithAffectedFile(coded.state, coded.affected),
                                    doneWithAffectedFile(simple.state, simple.affected))
            /\ \A f \in ProgramFiles(state.program) \cup {Undefined} :
                  LET x == getSemanticDiagnostics(state, kind, yielded, f, 0)
                      y == getSemanticDiagnostics(t, kind, yielded, f, 0)
                      v == emit(state, kind, yielded, f, 0)
                      w == emit(t, kind, yielded, f, 0)
                  IN  /\ x.failed = y.failed /\ x.result = y.result
                      /\ SameButIdleCursor(x.state, y.state)
                      /\ v.failed = w.failed /\ v.emits = w.emits
                      /\ SameButIdleCursor(v.state, w.state)
            /\ createBuilderProgramState(state.program, Some(state))
                  = createBuilderProgramState(state.program, Some(t))

\* A batch is in progress and the next call exhausts the iterator, the last
\* batch it starts being exhausted by skipping seen files: the coded iterator
\* leaves the cursor at the start of that batch, the simpler one at its end.
C17_Witness ==
    /\ state.affectedFiles # None
    /\ getNextAffectedFile(state).affected = Undefined
    /\ getNextAffectedFile(state).state.affectedFilesIndex
          # getNextAffectedFileWritingBack(state).state.affectedFilesIndex

\* C18 (every state is reusable), as claimed: every reachable state passes
\* both assertions createBuilderProgramState makes about an old state: if
\* currentChangedFilePath is absent then so is affectedFiles and no signature
\* is pending, and no changed path has cached diagnostics; so a new state can
\* be built from it.
C18_EveryStateReusable ==
    /\ state.currentChangedFilePath = Undefined =>
          /\ state.affectedFiles = None
          /\ \A p \in Paths : state.currentAffectedFilesSignatures[p] = NoSignature
    /\ PerFileMode =>
          \A p \in Range(state.changedFilesSet) :
              Get(state.semanticDiagnosticsPerFile)[p] = NoDiagnostics
    /\ ~ createBuilderProgramState(state.program, Some(state)).failed

\* The old state was reused for the current, freshly constructed state.
Reused == Created /\ canReuseOldState(state.referencedMap, last.old)

\* A path p references in the new program was a file of the old program and
\* is not a file of the new one.
NewReferenceDeleted(p) ==
    \E q \in RefKeys(state, p) :
        OldState.fileInfos[q].version # 0 /\ state.fileInfos[q].version = 0

\* C19 (diff exactness): in a freshly constructed state a file p of the new
\* program is in changedFilesSet iff the old state is not reused, or p was in
\* the old changedFilesSet, or p was not in the old fileInfos, or its version
\* differs, or its reference sets differ in key membership, or a path it
\* references was deleted.
C19_DiffExactness ==
    Created =>
        \A p \in ProgramFiles(state.program) :
            p \in Range(state.changedFilesSet) <=>
                \/ ~ Reused
                \/ p \in Range(OldState.changedFilesSet)
                \/ OldState.fileInfos[p].version = 0
                \/ VersionDiffers(p)
                \/ ReferencesDiffer(p)
                \/ NewReferenceDeleted(p)

\* A fully drained old state over a and b (b references a); the rebuild adds
\* the file c, absent from the old fileInfos, and changes nothing else:
\* changedFilesSet is exactly {c}.
C19_Witness ==
    /\ Reused
    /\ Exhausted(OldState)
    /\ ProgramFiles(OldState.program) = {"a", "b"}
    /\ OldState.fileInfos["c"].version = 0
    /\ ProgramFiles(state.program) = Paths
    /\ ~ VersionDiffers("a") /\ ~ VersionDiffers("b")
    /\ ~ ReferencesDiffer("a") /\ ~ ReferencesDiffer("b") /\ ~ ReferencesDiffer("c")
    /\ state.changedFilesSet = <<"c">>

\* A fully drained old state over a, b, c (b references a, c references b),
\* only the version of a changed: changedFilesSet is exactly {a}.
C19_WitnessVersion ==
    /\ Reused
    /\ Exhausted(OldState)
    /\ ProgramFiles(state.program) = Paths
    /\ ProgramFiles(OldState.program) = Paths
    /\ RefKeys(state, "b") = {"a"} /\ RefKeys(state, "c") = {"b"}
    /\ VersionDiffers("a") /\ ~ VersionDiffers("b") /\ ~ VersionDiffers("c")
    /\ state.changedFilesSet = <<"a">>

\* C20 (no lost invalidation): when the old state is reused every path of the
\* old changedFilesSet, the root of a batch in progress included, is in the
\* new changedFilesSet, and neither the pending signatures nor
\* seenAffectedFiles of the old state are carried over: the new state has
\* none, and its fileInfos hold committed signatures of the old state only.
C20_NoLostInvalidation ==
    Reused =>
        /\ Range(OldState.changedFilesSet) \subseteq Range(state.changedFilesSet)
        /\ OldState.currentChangedFilePath # Undefined =>
              OldState.currentChangedFilePath \in Range(state.changedFilesSet)
        /\ state.seenAffectedFiles = {}
        /\ \A p \in Paths :
              /\ state.currentAffectedFilesSignatures[p] = NoSignature
              /\ state.fileInfos[p].signature \in {NoSignature, OldState.fileInfos[p].signature}

\* The old state had a batch in progress with files committed and signatures
\* pending that differ from the committed ones; its root is changed in the
\* new state although its version is the same.
C20_Witness ==
    /\ Reused
    /\ OldState.currentChangedFilePath \in Paths
    /\ OldState.seenAffectedFiles # {}
    /\ \E p \in Paths :
          /\ OldState.currentAffectedFilesSignatures[p] # NoSignature
          /\ OldState.currentAffectedFilesSignatures[p] # OldState.fileInfos[p].signature
    /\ ~ VersionDiffers(OldState.currentChangedFilePath)
    /\ OldState.currentChangedFilePath \in Range(state.changedFilesSet)

\* In per-file mode the root of the batch in progress is the first changed
\* path, and a getNextAffectedFile call removes it from changedFilesSet iff
\* every file of the batch is seen; if not, the call yields an unseen file of
\* the same batch; if so, the call commits the pending signatures and clears
\* the root, and it leaves a root, a batch or pending signatures only for a
\* batch it started afterwards, whose root is then the first changed path.
\* doneWithAffectedFile on a file removes no root.
RootRemovedAtExhaustion ==
    PerFileMode =>
        LET n == getNextAffectedFile(state)
            root == state.currentChangedFilePath
        IN  /\ state.affectedFiles # None =>
                  /\ state.changedFilesSet # <<>>
                  /\ root = state.changedFilesSet[1]
                  /\ (root \notin Range(n.state.changedFilesSet)) <=>
                        (BatchPaths(state) \subseteq state.seenAffectedFiles)
                  /\ root \in Range(n.state.changedFilesSet) =>
                        /\ n.state.currentChangedFilePath = root
                        /\ n.state.affectedFiles = state.affectedFiles
                        /\ n.state.currentAffectedFilesSignatures
                              = state.currentAffectedFilesSignatures
                        /\ n.affected \in BatchPaths(state) \ state.seenAffectedFiles
                  /\ root \notin Range(n.state.changedFilesSet) =>
                        /\ n.state.currentChangedFilePath # root
                        /\ \A p \in Paths :
                              state.currentAffectedFilesSignatures[p] # NoSignature =>
                                  n.state.fileInfos[p].signature
                                      = state.currentAffectedFilesSignatures[p]
            /\ n.state.affectedFiles # None =>
                  /\ n.affected \in Paths
                  /\ n.state.currentChangedFilePath = n.state.changedFilesSet[1]
            /\ n.affected = Undefined =>
                  /\ n.state.changedFilesSet = <<>>
                  /\ n.state.affectedFiles = None
                  /\ n.state.currentChangedFilePath = Undefined
                  /\ \A p \in Paths : n.state.currentAffectedFilesSignatures[p] = NoSignature
            /\ \A f \in Paths :
                  doneWithAffectedFile(state, f).changedFilesSet = state.changedFilesSet

\* A step of one builder in per-file mode adds no root, and if it removes the
\* root of the batch in progress then every file of that batch is seen
\* afterwards and the root is no longer the current one.
RootsLeaveWhenBatchSeen ==
    (builds' = builds /\ PerFileMode) =>
        /\ Range(state'.changedFilesSet) \subseteq Range(state.changedFilesSet)
        /\ ( /\ state.affectedFiles # None
             /\ state.currentChangedFilePath \notin Range(state'.changedFilesSet) ) =>
               /\ BatchPaths(state) \subseteq state'.seenAffectedFiles
               /\ state'.currentChangedFilePath # state.currentChangedFilePath

\* C21 (root removal): in per-file mode a changed root leaves changedFilesSet
\* only in the step that finds its batch exhausted, every file of the batch
\* being committed or seen before; that step clears currentChangedFilePath,
\* the pending signatures and affectedFiles, and no batch of another root
\* starts before it.
C21_RootRemovedAtExhaustion ==
    /\ [] RootRemovedAtExhaustion
    /\ [][RootsLeaveWhenBatchSeen]_vars

\* The batch of a first root was exhausted and its signatures committed; the
\* batch of the next root is in progress with a file committed and another
\* one still to come, its root being the first changed path.
C21_Witness ==
    /\ PerFileMode
    /\ state.affectedFiles # None
    /\ state.affectedFilesIndex >= 1
    /\ state.currentChangedFilePath = state.changedFilesSet[1]
    /\ getNextAffectedFile(state).affected \in BatchPaths(state)
    /\ \E p \in state.hasCalledUpdateShapeSignature :
          /\ p \notin Range(state.changedFilesSet)
          /\ state.fileInfos[p].signature # NoSignature

\* In per-file mode the units the iterator hands out from the current state
\* on are files not yet committed, each once; and the file a call yields is
\* the first file of its batch, in the order of the sequence, that is not
\* seen.
CommittedNotYieldedAgain ==
    PerFileMode =>
        LET n == getNextAffectedFile(state)
            units == AffectedUnits(state)
        IN  /\ \A i \in 1..Len(units) : units[i] \notin state.seenAffectedFiles
            /\ \A i, j \in 1..Len(units) : units[i] = units[j] => i = j
            /\ n.affected # Undefined =>
                  LET batch == Get(n.state.affectedFiles)
                  IN  \E i \in 1..Len(batch) :
                          /\ batch[i] = n.affected
                          /\ \A j \in 1..(i - 1) : batch[j] \in state.seenAffectedFiles
            /\ n.affected # Undefined =>
                  LET d == doneWithAffectedFile(n.state, n.affected)
                  IN  /\ n.affected \in d.seenAffectedFiles
                      /\ n.affected \notin Range(AffectedUnits(d))

\* The operation of the step ran the iterator.
IteratorOperation(op) ==
    \/ op.op \in NextAffectedOps
    \/ op.op = "getSemanticDiagnostics" /\ op.arg = Undefined
    \/ op.op = "emit" /\ op.arg = Undefined /\ kind = EmitAndSemanticDiagnosticsBuilderProgram

\* A step of one builder yields, analyses or emits through the iterator no
\* file that was committed before the step.
StepYieldsUncommittedOnly ==
    (builds' = builds /\ PerFileMode /\ IteratorOperation(last')) =>
        /\ last'.affected \notin state.seenAffectedFiles
        /\ yielded' \notin state.seenAffectedFiles
        /\ \A i \in 1..Len(last'.emits) : last'.emits[i] \notin state.seenAffectedFiles
        /\ \A i \in 1..Len(last'.skipped) : last'.skipped[i] \notin state.seenAffectedFiles

\* C22 (each file once): within one state, a file committed by
\* doneWithAffectedFile is never yielded again by getNextAffectedFile, also
\* when it is in the affected sequence of a later root or is a later root
\* itself; within a batch the unseen files are yielded in sequence order.
C22_CommittedNotYieldedAgain ==
    /\ [] CommittedNotYieldedAgain
    /\ [][StepYieldsUncommittedOnly]_vars

\* A file was yielded and committed; a committed file other than the root of
\* the batch in progress is still a changed root, files are still to be
\* yielded, and that file is not among them.
C22_Witness ==
    /\ PerFileMode
    /\ last.op \in NextAffectedOps
    /\ last.affected \in state.seenAffectedFiles
    /\ AffectedUnits(state) # <<>>
    /\ \E f \in state.seenAffectedFiles :
          /\ f \in Range(state.changedFilesSet)
          /\ f # state.currentChangedFilePath
          /\ f \notin Range(AffectedUnits(state))

(* ---------------------------------------------------------------------- *)
(* The drain loop, step by step                                            *)
(* ---------------------------------------------------------------------- *)

\* The two loops that exhaust the iterator, one call at a time.  On a
\* SemanticDiagnosticsBuilderProgram in per-file mode it is the loop of
\* getSemanticDiagnostics() (line 394-397):
\*     while (affected = getNextAffectedFile(...)) doneWithAffectedFile(state, affected)
\* On an EmitAndSemanticDiagnosticsBuilderProgram it is the loop of emit()
\* (line 317-323) over emitNextAffectedFile (line 280-294): getNextAffectedFile,
\* then program.emit of the unit, then doneWithAffectedFile.
\* pc is the position in that loop; what the operation does after the loop
\* (line 399-404, line 324-329) is not part of it.
LoopPositions == {"next", "done", "end"}

\* The operation enters its loop, in whatever state the builder is.  With
\* outFile getSemanticDiagnostics returns before its loop (line 382-386).
StartDrain ==
    /\ pc = "end"
    /\ \/ kind = EmitAndSemanticDiagnosticsBuilderProgram
       \/ ~ state.program.outFile
    /\ pc' = "next"
    /\ UNCHANGED <<state, kind, yielded, last, builds>>

\* The loop's call of getNextAffectedFile (line 396, line 281); the loop ends
\* when it returns undefined.
GetNextAffectedFile ==
    /\ pc = "next"
    /\ LET n == getNextAffectedFile(state)
       IN  /\ state' = n.state
           /\ yielded' = n.affected
           /\ last' = Op("getNextAffectedFile", Undefined,
                         [Outcome(n.state, n.affected) EXCEPT !.affected = n.affected], None)
           /\ pc' = IF n.affected = Undefined THEN "end" ELSE "done"
    /\ UNCHANGED <<kind, builds>>

\* The loop's call of doneWithAffectedFile for the unit yielded: at once in
\* the loop of getSemanticDiagnostics (line 397); in the loop of emit after
\* program.emit of the unit returned (line 291, then line 196).
\* A variant of the loop that goes round without the call.
DoneWithAffectedFileLeftOut ==
    /\ pc = "done"
    /\ last' = Op("doneWithAffectedFile", yielded,
                  [Outcome(state, yielded) EXCEPT !.affected = yielded], None)
    /\ pc' = "next"
    /\ UNCHANGED <<state, kind, yielded, builds>>

DoneWithAffectedFile ==
    /\ pc = "done"
    /\ LET committed == [Outcome(doneWithAffectedFile(state, yielded), Undefined) EXCEPT
                           !.affected = yielded]
           o == IF kind = EmitAndSemanticDiagnosticsBuilderProgram
                THEN [committed EXCEPT !.emits = <<yielded>>,
                                       !.emitResult = ProgramEmit(state.program, yielded)]
                ELSE committed
       IN  /\ state' = o.state
           /\ yielded' = Undefined
           /\ last' = Op("doneWithAffectedFile", yielded, o, None)
    /\ pc' = "next"
    /\ UNCHANGED <<kind, builds>>

\* In the loop of emit, program.emit of the unit yielded throws
\* OperationCanceledException (line 291): doneWithAffectedFile is not called
\* and the loop is left with the unit yielded and not committed.
EmitCancelled ==
    /\ pc = "done"
    /\ kind = EmitAndSemanticDiagnosticsBuilderProgram
    /\ last' = Op("emitNextAffectedFile", Undefined,
                  [Outcome(state, yielded) EXCEPT !.cancelled = TRUE], None)
    /\ pc' = "end"
    /\ UNCHANGED <<state, kind, yielded, builds>>

\* The builder's operations while no loop is running, and a loop run one call
\* at a time from whatever state they left.
DrainNext ==
    \/ pc = "end" /\ Next
    \/ StartDrain
    \/ GetNextAffectedFile
    \/ DoneWithAffectedFile
    \/ EmitCancelled

\* A running loop moves on.  Within DrainNext the steps that change pc while
\* pc # "end" are exactly GetNextAffectedFile, DoneWithAffectedFile and
\* EmitCancelled, and one of them is enabled whenever pc # "end".
LoopAdvances == pc # "end" /\ pc' \in LoopPositions \ {pc}

\* A sequential loop that has a next step takes it.
DrainSpec == Init /\ [][DrainNext]_vars /\ WF_pc(LoopAdvances)

\* The loop ended: its call of getNextAffectedFile returned undefined.
Drained == pc = "end" /\ last.op = "getNextAffectedFile" /\ last.affected = Undefined

\* The loop was left by a cancellation, before doneWithAffectedFile.
LoopCancelled == pc = "end" /\ last.op = "emitNextAffectedFile" /\ last.cancelled

\* Some file of the program is reachable from itself by references.
RECURSIVE ReachableBy(_, _, _)
ReachableBy(prog, from, n) ==
    IF n = 0 THEN from
    ELSE ReachableBy(prog, from \cup UNION {prog.refs[p] : p \in from}, n - 1)

CyclicReferences(prog) ==
    \E p \in ProgramFiles(prog) : p \in ReachableBy(prog, prog.refs[p], Cardinality(Paths))

\* Every round of the loop makes progress: the step from "done" back to
\* "next" has committed the unit yielded (a file is seen from then on, the
\* whole program empties changedFilesSet).
RoundCommitsYielded ==
    (pc = "done" /\ pc' = "next") =>
        IF yielded = WholeProgram
        THEN state'.changedFilesSet = <<>>
        ELSE /\ yielded \notin state.seenAffectedFiles
             /\ state'.seenAffectedFiles = state.seenAffectedFiles \cup {yielded}

\* C23 (termination of the drain): from every reachable state, a caller that
\* alternates getNextAffectedFile and doneWithAffectedFile reaches a call of
\* getNextAffectedFile that returns undefined, unless a cancellation ends the
\* alternation first; every round commits a unit not committed before.
C23_DrainTerminates ==
    /\ (pc # "end") ~> (Drained \/ LoopCancelled)
    /\ [][RoundCommitsYielded]_vars

\* The loop ran to its end, one call at a time, in a program of three files
\* with a reference cycle, and committed every file on the way.
C23_Witness ==
    /\ Drained
    /\ PerFileMode
    /\ state.program.module
    /\ CyclicReferences(state.program)
    /\ state.seenAffectedFiles = Paths
    /\ state.changedFilesSet = <<>>

\* The loop is under way with a changed path that is not in the program and
\* with a later root, a file of the program, in the batch in progress.
C23_WitnessMissingPath ==
    /\ PerFileMode
    /\ last.op = "doneWithAffectedFile"
    /\ state.affectedFiles # None
    /\ \E i \in 1..Len(state.changedFilesSet) :
          state.changedFilesSet[i] \notin ProgramFiles(state.program)
    /\ \E i \in 2..Len(state.changedFilesSet) :
          /\ state.changedFilesSet[i] \in ProgramFiles(state.program)
          /\ state.changedFilesSet[i] \in BatchPaths(state)

\* semanticDiagnosticsPerFile of s has an entry for p.
HasEntry(s, p) ==
    /\ s.semanticDiagnosticsPerFile # None
    /\ Get(s.semanticDiagnosticsPerFile)[p] # NoDiagnostics

\* The forEach of line 84-108 registered p as changed: p is a file of the new
\* program and one of the clauses of line 89-97 holds for it.
MarkedChangedByDiff(p) ==
    /\ p \in ProgramFiles(state.program)
    /\ \/ ~ Reused
       \/ OldState.fileInfos[p].version = 0
       \/ VersionDiffers(p)
       \/ ReferencesDiffer(p)
       \/ NewReferenceDeleted(p)

\* The old state is reused, both states have per-file caches, the diff did
\* not mark p and the old cache has an entry for p.
CopyCondition(p) ==
    /\ Reused
    /\ OldState.semanticDiagnosticsPerFile # None
    /\ state.semanticDiagnosticsPerFile # None
    /\ ~ MarkedChangedByDiff(p)
    /\ HasEntry(OldState, p)

\* Every entry of the new cache is the old entry of the same path.
CopiedValueIsOldEntry ==
    \A p \in Paths :
        HasEntry(state, p) =>
            /\ HasEntry(OldState, p)
            /\ Get(state.semanticDiagnosticsPerFile)[p] =
                   Get(OldState.semanticDiagnosticsPerFile)[p]

\* No path of the new changedFilesSet has a cache entry.
NoChangedPathCached ==
    \A i \in 1..Len(state.changedFilesSet) : ~ HasEntry(state, state.changedFilesSet[i])

\* C24 (copy-forward exactness), as claimed: in a freshly constructed state
\* the cache has an entry for a path p iff the old state is reused, both
\* states have per-file caches, the diff did not mark p changed and the old
\* cache has an entry for p; the value is the old entry; no changed path has
\* an entry.
C24_CopyForwardOfEveryPath ==
    Created =>
        /\ \A p \in Paths : HasEntry(state, p) <=> CopyCondition(p)
        /\ CopiedValueIsOldEntry
        /\ NoChangedPathCached

\* C24 (copy-forward exactness), amended: the same for the files of the new
\* program; a path that is not a file of the new program has no entry,
\* whatever the old cache held for it.
C24_CopyForwardExactness ==
    Created =>
        /\ \A p \in Paths :
              HasEntry(state, p) <=> (p \in ProgramFiles(state.program) /\ CopyCondition(p))
        /\ CopiedValueIsOldEntry
        /\ NoChangedPathCached

\* A state built from a reused old state: the entry of one file was copied,
\* and a file the diff marked changed had an old entry that was not copied.
C24_Witness ==
    /\ Reused
    /\ \E p \in ProgramFiles(state.program) :
          /\ HasEntry(state, p)
          /\ p \notin Range(state.changedFilesSet)
    /\ \E q \in ProgramFiles(state.program) :
          /\ MarkedChangedByDiff(q)
          /\ HasEntry(OldState, q)
          /\ ~ HasEntry(state, q)
          /\ q \in Range(state.changedFilesSet)

\* A file of the old program with a cache entry is not a file of the new
\* program: its entry is not copied.
C24_WitnessDeleted ==
    /\ Reused
    /\ \E p \in Paths :
          /\ p \notin ProgramFiles(state.program)
          /\ HasEntry(OldState, p)
          /\ ~ HasEntry(state, p)
          /\ p \notin Range(state.changedFilesSet)

\* The last operation was createBuilderProgram with the program of the old
\* builder.
SameProgramGiven == last.op = "createBuilderProgram" /\ last.arg = "sameProgram"

\* After the call the builder in use is the old builder, with the state it
\* had, and the call did not fail.
OldBuilderReturned ==
    SameProgramGiven =>
        /\ last.old = Some(state)
        /\ ~ last.failed
        /\ ~ last.cancelled
        /\ last.calls = <<>>
        /\ last.emits = <<>>

\* The call changes neither the state nor the kind of the builder nor the unit
\* it has yielded, and constructs no state.
SameProgramChangesNothing ==
    (SameProgramGiven' /\ last' # last) =>
        /\ state' = state
        /\ kind' = kind
        /\ yielded' = yielded
        /\ builds' = builds
        /\ pc' = pc

\* C25 (same-program shortcut): createBuilderProgram given an old builder
\* whose state's program is the program passed as new returns the old
\* builder, whatever kind is requested, and leaves its state (changedFilesSet,
\* batch cursor, seen set, pending signatures, cache) unchanged; no state is
\* constructed.
C25_SameProgramShortcut ==
    /\ [] OldBuilderReturned
    /\ [][SameProgramChangesNothing]_vars

\* The old builder was returned in the middle of a batch, with seen files,
\* pending signatures, cached diagnostics and changed files left, in a state
\* from which the constructor would have failed.
C25_Witness ==
    /\ SameProgramGiven
    /\ PerFileMode
    /\ state.affectedFiles # None
    /\ state.affectedFilesIndex > 0
    /\ state.seenAffectedFiles # {}
    /\ state.changedFilesSet # <<>>
    /\ \E p \in Paths : state.currentAffectedFilesSignatures[p] # NoSignature
    /\ \E p \in Paths : HasEntry(state, p)
    /\ createBuilderProgramState(state.program, Some(state)).failed

====
